---- MODULE Spec2Model ----
(***************************************************************************)
(* Model of the MICARDO card driver (src/libopensc/card-mcrd.c): the       *)
(* selection-path cache (curpath / curpathlen / is_ef), the per-directory  *)
(* store of EF_Rule / EF_KeyD records (df_infos) and the handlers that     *)
(* change them.  Every handler is one action; the card's answers are the   *)
(* action's nondeterministic inputs.                                       *)
(***************************************************************************)
EXTENDS Integers, Sequences, FiniteSets, TLC

(***************************************************************************)
(* Program constants.                                                      *)
(***************************************************************************)
MCRD_SEL_MF == 0
MCRD_SEL_DF == 1
MCRD_SEL_EF == 2
MCRD_SEL_AID == 4
MFID == 16128
EF_KeyD == 19
EF_Rule == 48
MAX_CURPATH == 10
\* sizeof(pathtmp) in mcrd_select_file: SC_MAX_PATH_SIZE/2 identifiers of 2 bytes.
SC_MAX_PATH_SIZE == 16
\* The identifier select_file_by_path strips and select_file_by_fid ignores.
SELF_FID == 16383

(***************************************************************************)
(* Bounds of the model.                                                    *)
(***************************************************************************)
\* df_infos is a malloc'ed list without eviction: its length is capped.
MaxDfInfos == 2
\* Depth of the directory tree of the shallow and of the deep card.
ShallowDepth == 2
DeepDepth == 10

(***************************************************************************)
(* Identifiers used by the requests: a directory 0x4100 and a data file    *)
(* 0x4101, besides the root and the self reference.                        *)
(***************************************************************************)
FidDir == 65 * 256
FidFile == 65 * 256 + 1
NO_FID == 0 - 1

VARIABLES
    curpath,    \* priv->curpath[0 .. curpathlen-1]
    is_ef,      \* priv->is_ef
    df_infos,   \* priv->df_infos, head first
    cardDF,     \* the card: path of its current directory
    cardEF,     \* the card: its selected data file, or NO_FID
    prof,       \* the card: what it holds
    inited,     \* mcrd_init has run
    aborted,    \* an assert of the driver has failed
    call,       \* the last handler called, with its arguments
    ret,        \* its return value
    apdus,      \* the commands it transmitted, with the card's answers
    file_id,    \* file->id of the sc_file it returned, or NO_FID
    out_len,    \* bytes mcrd_compute_signature wrote to out
    load_ret,   \* what load_special_files returned to it, "NONE" without a load
    done,       \* the directories a load has read to the end
    fcp,        \* process_fcp on its own: the buffer and the sc_file it fills
    pc,         \* two callers of mcrd_set_security_env: where each stands
    lock,       \* the caller sc_lock gave the card to, or 0
    wire        \* the commands the two callers transmitted, in order

vars == <<curpath, is_ef, df_infos, cardDF, cardEF, prof, inited,
          aborted, call, ret, apdus, file_id, out_len, load_ret, done,
          fcp, pc, lock, wire>>

(***************************************************************************)
(* The card.  Its tree is regular: every directory down to prof.depth      *)
(* holds a directory 0x4100, a data file 0x4101, an EF_Rule file and,      *)
(* with prof.has_keyd, an EF_KeyD file.                                    *)
(***************************************************************************)
\* SELECT with P1 = kind and the identifier as data: the card's new state.
CardSelect(df, ef, kind, fid) ==
    IF kind = MCRD_SEL_AID
    THEN [ok |-> TRUE, df |-> <<MFID, FidDir>>, ef |-> NO_FID]
    ELSE IF kind = MCRD_SEL_MF /\ fid = MFID
    THEN [ok |-> TRUE, df |-> <<MFID>>, ef |-> NO_FID]
    ELSE IF kind \in {MCRD_SEL_MF, MCRD_SEL_DF}
            /\ fid = FidDir /\ Len(df) < prof.depth
    THEN [ok |-> TRUE, df |-> Append(df, fid), ef |-> NO_FID]
    ELSE IF kind \in {MCRD_SEL_MF, MCRD_SEL_EF}
            /\ (fid \in {FidFile, EF_Rule} \/ (fid = EF_KeyD /\ prof.has_keyd))
    THEN [ok |-> TRUE, df |-> df, ef |-> fid]
    ELSE [ok |-> FALSE, df |-> df, ef |-> ef]

\* READ RECORD recno of the selected file: its bytes, or <<>> past the end.
CardRecords(ef) ==
    IF ef = EF_Rule THEN prof.rule
    ELSE IF ef = EF_KeyD THEN prof.keyd
    ELSE <<>>

(***************************************************************************)
(* The running handler: the driver's data, the card, the commands sent so  *)
(* far and the answers still to come (command failAt is answered err).     *)
(***************************************************************************)
Enter(failAt, err) ==
    [curpath |-> curpath, is_ef |-> is_ef, df_infos |-> df_infos,
     cardDF |-> cardDF, cardEF |-> cardEF,
     aborted |-> FALSE, apdus |-> <<>>, file |-> NO_FID, r |-> "OK",
     out_len |-> 0, found_ef |-> FALSE,
     load |-> "NONE", hit |-> FALSE, done |-> done,
     failAt |-> failAt, err |-> err]

Return(st, code) == [st EXCEPT !.r = code]
Abort(st) == [st EXCEPT !.aborted = TRUE, !.r = "ABORT"]

OK == "OK"

Failed(s) == s.aborted \/ s.r # OK

\* s, or what K makes of it when the step that gave s succeeded.
Then(s, K(_)) == IF Failed(s) THEN s ELSE K(s)

(***************************************************************************)
(* get_df_info: the df_info of the current path, created when missing.     *)
(* DfiIndex is the pointer it returns (0 for NULL).  calloc and malloc are *)
(* taken to succeed.                                                       *)
(***************************************************************************)
DfiOf(infos, path) ==
    IF \E i \in 1..Len(infos) : infos[i].path = path
    THEN CHOOSE i \in 1..Len(infos) :
            /\ infos[i].path = path
            /\ \A j \in 1..(i - 1) : infos[j].path # path
    ELSE 0

DfiIndex(st) == IF st.curpath = <<>> THEN 0 ELSE DfiOf(st.df_infos, st.curpath)

get_df_info(st) ==
    IF st.is_ef THEN Abort(st)                       \* assert (!priv->is_ef)
    ELSE IF st.curpath = <<>> THEN st
    ELSE IF DfiIndex(st) # 0 THEN st
    ELSE [st EXCEPT !.df_infos =
            <<[path |-> st.curpath, rule_file |-> <<>>, keyd_file |-> <<>>]>> \o @]

clear_special_files(st, dfi) ==
    IF dfi = 0 THEN st
    ELSE [st EXCEPT !.df_infos[dfi].rule_file = <<>>,
                    !.df_infos[dfi].keyd_file = <<>>]

(***************************************************************************)
(* process_arr and process_fcp, as far as they touch the driver's data:    *)
(* a short access-rule reference makes process_arr look the df_info up.    *)
(***************************************************************************)
process_arr(st, buflen) ==
    IF buflen # 1 THEN st ELSE get_df_info(st)

process_fcp(st, fid) ==
    IF prof.arr_len > 0
    THEN process_arr([st EXCEPT !.file = fid], prof.arr_len)
    ELSE [st EXCEPT !.file = fid]

(***************************************************************************)
(* do_select: one SELECT command and the parse of its answer.              *)
(***************************************************************************)
\* The command about to be sent is the one the card (or the reader) fails.
Injected(st) == st.failAt = Len(st.apdus) + 1

Apdu(ins, p1, id, sw) ==
    [ins |-> ins, p1 |-> p1, id |-> id, data |-> <<>>, sw |-> sw]

ApduData(ins, p1, data, sw) ==
    [ins |-> ins, p1 |-> p1, id |-> NO_FID, data |-> data, sw |-> sw]

SelectAnswer(st, kind, fid) ==
    \* The command is lost or refused.
    IF Injected(st) /\ st.err # "UNKNOWN_DATA_RECEIVED" THEN st.err
    ELSE IF CardSelect(st.cardDF, st.cardEF, kind, fid).ok THEN OK
    ELSE "FILE_NOT_FOUND"

\* sc_transmit_apdu and sc_check_sw: the card moves when it answers OK.
SendSelect(st, kind, fid, sw) ==
    [st EXCEPT !.apdus = Append(@, Apdu("SELECT", kind, fid, sw)),
               !.cardDF = IF sw = OK
                          THEN CardSelect(st.cardDF, st.cardEF, kind, fid).df
                          ELSE @,
               !.cardEF = IF sw = OK
                          THEN CardSelect(st.cardDF, st.cardEF, kind, fid).ef
                          ELSE @,
               !.r = sw]

\* The identifier the answer carries: the one of the file now selected.
RespFid(s, fid) ==
    IF fid # NO_FID THEN fid
    ELSE IF s.cardEF # NO_FID THEN s.cardEF
    ELSE s.cardDF[Len(s.cardDF)]

ParseSelect(s, fid, want, garbled) ==
    IF s.r # OK \/ ~want THEN s
    ELSE IF garbled
    THEN [s EXCEPT !.apdus[Len(s.apdus)].sw = "UNKNOWN_DATA_RECEIVED",
                   !.r = "UNKNOWN_DATA_RECEIVED"]
    ELSE process_fcp(s, RespFid(s, fid))

do_select(st, kind, fid, want) ==
    IF st.aborted THEN st
    ELSE ParseSelect(SendSelect(st, kind, fid, SelectAnswer(st, kind, fid)),
                     fid, want,
                     \* Answered, but with bytes that are no FCP.
                     Injected(st) /\ st.err = "UNKNOWN_DATA_RECEIVED" /\ want)

select_part(st, kind, fid, want) ==
    do_select(st, IF fid = MFID THEN MCRD_SEL_MF ELSE kind, fid, want)

(***************************************************************************)
(* load_special_files.                                                     *)
(***************************************************************************)
StoreRecord(st, dfi, which, recno, data) ==
    IF dfi = 0 THEN Abort(st)                        \* dfi->rule_file of NULL
    ELSE IF which = EF_Rule
    THEN [st EXCEPT !.df_infos[dfi].rule_file =
                        <<[recno |-> recno, data |-> data]>> \o @]
    ELSE [st EXCEPT !.df_infos[dfi].keyd_file =
                        <<[recno |-> recno, data |-> data]>> \o @]

ReadAnswer(st, recno) ==
    IF Injected(st) THEN st.err
    ELSE IF recno > Len(CardRecords(st.cardEF)) THEN "RECORD_NOT_FOUND"
    ELSE OK

SendRead(st, recno, sw) ==
    [st EXCEPT !.apdus = Append(@, Apdu("READ_RECORD", recno, NO_FID, sw)),
               !.r = sw]

RECURSIVE read_records(_, _, _, _)
\* A variant that takes every refusal for the end of the file.
read_next_lenient(s, dfi, which, recno) ==
    IF s.r # OK THEN Return(s, OK)
    ELSE Then(StoreRecord(s, dfi, which, recno, CardRecords(s.cardEF)[recno]),
              LAMBDA t : read_records(t, dfi, which, recno + 1))

\* A variant that goes on with the record after the next.
read_next_skip(s, dfi, which, recno) ==
    IF s.r = "RECORD_NOT_FOUND" THEN Return(s, OK)
    ELSE IF s.r # OK THEN s
    ELSE Then(StoreRecord(s, dfi, which, recno, CardRecords(s.cardEF)[recno]),
              LAMBDA t : read_records(t, dfi, which, recno + 2))

\* s is the state after READ RECORD recno.
read_next(s, dfi, which, recno) ==
    IF s.r = "RECORD_NOT_FOUND" THEN Return(s, OK)          \* break
    ELSE IF s.r # OK THEN s
    ELSE Then(StoreRecord(s, dfi, which, recno, CardRecords(s.cardEF)[recno]),
              LAMBDA t : read_records(t, dfi, which, recno + 1))

read_records(st, dfi, which, recno) ==
    read_next(SendRead(st, recno, ReadAnswer(st, recno)), dfi, which, recno)

\* A variant that takes a missing EF_KeyD for an error.
load_keyd_strict(s, dfi) ==
    IF s.r # OK THEN s
    ELSE read_records(s, dfi, EF_KeyD, 1)

\* s is the state after the SELECT of EF_KeyD.
load_keyd(s, dfi) ==
    IF s.r = "FILE_NOT_FOUND" THEN Return(s, OK)            \* "That is okay."
    ELSE IF s.r # OK THEN s
    ELSE read_records(s, dfi, EF_KeyD, 1)

load_rule(st, dfi) ==
    Then(select_part(st, MCRD_SEL_EF, EF_Rule, FALSE),
         LAMBDA s : read_records(s, dfi, EF_Rule, 1))

\* s is the state get_df_info left.
load_files(s) ==
    \* dfi && dfi->rule_file: the files of this directory are cached.
    IF DfiIndex(s) # 0 /\ s.df_infos[DfiIndex(s)].rule_file # <<>>
    THEN [s EXCEPT !.r = OK, !.hit = TRUE]
    ELSE Then(load_rule(clear_special_files(s, DfiIndex(s)), DfiIndex(s)),
              LAMBDA t : load_keyd(select_part(t, MCRD_SEL_EF, EF_KeyD, FALSE),
                                   DfiIndex(s)))

load_special_files(st) ==
    IF st.is_ef THEN Abort(st)                       \* assert (!priv->is_ef)
    ELSE load_files(get_df_info(st))

(***************************************************************************)
(* select_down: select the identifiers of path one by one below the        *)
(* current path, appending each to curpath once its SELECT succeeded.      *)
(* found_ef is its local variable.                                         *)
(***************************************************************************)
\* A variant that finds the cache full one identifier late.
CacheFullLate(st) == Len(st.curpath) = MAX_CURPATH + 1

CacheFull(st) == Len(st.curpath) = MAX_CURPATH

\* A variant that tries the data-file select on every component.
TryEFAlways(pathlen, df_only) == ~df_only

TryEF(pathlen, df_only) == pathlen = 1 /\ ~df_only

PushFid(st, fid) == [st EXCEPT !.curpath = Append(@, fid)]

\* "first try to select an EF": r = -1 otherwise, to force the DF select.
try_ef(st, fid, pathlen, df_only, want) ==
    IF TryEF(pathlen, df_only) THEN select_part(st, MCRD_SEL_EF, fid, want)
    ELSE Return(st, "FORCE_DF")

\* "and retry an DF on error": s is the state after the EF attempt.
try_df(s, fid, want) ==
    IF s.aborted THEN s
    ELSE IF s.r = OK THEN [s EXCEPT !.found_ef = TRUE]
    ELSE select_part(s, MCRD_SEL_DF, fid, want)

\* A variant that appends the identifier before it is selected.
select_step_eager(st, fid, pathlen, df_only, want) ==
    try_df(try_ef(PushFid(st, fid), fid, pathlen, df_only, want), fid,
           want /\ pathlen = 1)

\* One round of the loop: the EF attempt, the DF select, the append.
select_step(st, fid, pathlen, df_only, want) ==
    Then(try_df(try_ef(st, fid, pathlen, df_only, want), fid,
                want /\ pathlen = 1),
         LAMBDA s : PushFid(s, fid))

\* What the load returned: "HIT" for the return at the cache test.
LoadResult(s) == IF s.hit THEN "HIT" ELSE s.r

\* A variant that hands the load's result to the caller.
IgnoreResultNot(s) ==
    IF s.aborted THEN s
    ELSE [s EXCEPT !.load = LoadResult(s),
                   !.done = IF LoadResult(s) = OK THEN @ \cup {s.curpath} ELSE @,
                   !.hit = FALSE]

\* The load's result is dropped.  load and done keep, for the properties,
\* what it was and which directories were read to the end.
IgnoreResult(s) ==
    IF s.aborted THEN s
    ELSE [s EXCEPT !.load = LoadResult(s),
                   !.done = IF LoadResult(s) = OK THEN @ \cup {s.curpath} ELSE @,
                   !.hit = FALSE,
                   !.r = OK]

\* After the loop.
select_finish(st) ==
    IF st.found_ef THEN [st EXCEPT !.is_ef = TRUE]
    ELSE IgnoreResult(load_special_files([st EXCEPT !.is_ef = FALSE]))

RECURSIVE select_loop(_, _, _, _)
select_loop(st, path, df_only, want) ==
    IF path = <<>> THEN select_finish(st)
    ELSE IF CacheFull(st) THEN Return(st, "INTERNAL")
    ELSE Then(select_step(st, Head(path), Len(path), df_only, want),
              LAMBDA s : select_loop(s, Tail(path), df_only, want))

select_down(st, path, df_only, want) ==
    IF path = <<>> THEN Return(st, "INVALID_ARGUMENTS")
    ELSE select_loop([st EXCEPT !.found_ef = FALSE], path, df_only, want)

(***************************************************************************)
(* select_file_by_path and select_file_by_fid.                             *)
(***************************************************************************)
ResetPath(st) == [st EXCEPT !.curpath = <<>>]
ResetAll(st)  == [st EXCEPT !.curpath = <<>>, !.is_ef = FALSE]
SetRoot(st, fid) == [st EXCEPT !.curpath = <<fid>>, !.is_ef = FALSE]

\* assert (priv->curpathlen > 1); priv->curpathlen--; priv->is_ef = 0;
PopOne(st) ==
    IF ~(Len(st.curpath) > 1) THEN Abort(st)
    ELSE [st EXCEPT !.curpath = SubSeq(@, 1, Len(@) - 1), !.is_ef = FALSE]

\* assert (!priv->curpathlen || priv->curpath[0] == MFID);
PathAssert(st) == st.curpath = <<>> \/ st.curpath[1] = MFID

\* "MF requested: clear the cache and select it."
select_mf(st, fid, want) ==
    Then(select_part(ResetPath(st), MCRD_SEL_MF, fid, want),
         LAMBDA s : SetRoot(s, fid))

\* "Relative addressing without a current path. So we select the MF first."
relative_root(st, fid, want) ==
    IF st.curpath = <<>>
    THEN Then(select_part(st, MCRD_SEL_MF, fid, want), LAMBDA s : SetRoot(s, fid))
    ELSE st

\* A variant that clears the flag and keeps the data file in the path.
leave_ef_stay(st) == IF st.is_ef THEN [st EXCEPT !.is_ef = FALSE] ELSE st

leave_ef(st) == IF st.is_ef THEN PopOne(st) ELSE st

\* "Relative addressing."
select_relative(st, path, want) ==
    Then(Then(relative_root(st, path[1], want), leave_ef),
         LAMBDA s : select_down(s, path, FALSE, want))

StripSelf(path) ==
    IF path # <<>> /\ path[1] = SELF_FID THEN Tail(path) ELSE path

\* i of the for loop: the length of the common prefix of path and curpath.
RECURSIVE CommonPrefix(_, _)
CommonPrefix(a, b) ==
    IF a # <<>> /\ b # <<>> /\ a[1] = b[1]
    THEN 1 + CommonPrefix(Tail(a), Tail(b))
    ELSE 0

BadPathLen(pathlen) == pathlen = 0 \/ pathlen >= MAX_CURPATH

\* A variant that misses the ancestor one level up.
GoingUpTwo(i, pathlen, curpathlen) == i = pathlen /\ i + 1 < curpathlen

GoingUp(i, pathlen, curpathlen) == i = pathlen /\ i < curpathlen

\* A variant that takes a fully cached path for one still to be appended to.
AlreadySelectedNever(i, pathlen, curpathlen) == i = pathlen /\ i > curpathlen

AlreadySelected(i, pathlen, curpathlen) == i = pathlen /\ i = curpathlen

\* A variant that re-selects without leaving the file first.
select_again_below(st, fid, want) ==
    select_down([st EXCEPT !.is_ef = FALSE], <<fid>>, FALSE, want)

\* "This EF or DF was already selected, but we need to get the FCI".
select_again(st, fid, want) ==
    Then(PopOne(st), LAMBDA s : select_down(s, <<fid>>, FALSE, want))

\* "Absolute addressing, check cache to avoid unnecessary selects."
select_absolute(st, path, want, i) ==
    IF st.curpath = <<>>
    THEN select_down(ResetAll(st), path, FALSE, want)
    ELSE IF GoingUp(i, Len(path), Len(st.curpath))
    THEN select_down(ResetAll(st), path, TRUE, want)
    ELSE IF AlreadySelected(i, Len(path), Len(st.curpath))
    THEN IF ~want THEN Return(st, OK)
         ELSE select_again(st, path[Len(path)], want)
    ELSE select_down(ResetAll(st), path, FALSE, want)

\* path is the request after the leading 0x3FFF went.
select_stripped(st, path, want) ==
    IF BadPathLen(Len(path)) THEN Return(st, "INVALID_ARGUMENTS")
    ELSE IF Len(path) = 1 /\ path[1] = MFID THEN select_mf(st, path[1], want)
    ELSE IF Len(path) > 1 /\ path[1] = MFID
    THEN select_absolute(st, path, want, CommonPrefix(path, st.curpath))
    ELSE select_relative(st, path, want)

select_file_by_path(st, pathptr, want) ==
    IF ~PathAssert(st) THEN Abort(st)
    ELSE select_stripped(st, StripSelf(pathptr), want)

\* With pathlen = 0 the re-select reads pathptr[0], which mcrd_select_file
\* never wrote: stale is whatever the stack held.
select_file_by_fid(st, pathptr, want, stale) ==
    IF ~PathAssert(st) THEN Abort(st)
    ELSE IF Len(pathptr) > 1 THEN Return(st, "INVALID_ARGUMENTS")
    ELSE IF pathptr # <<>> /\ pathptr[1] = SELF_FID THEN Return(st, OK)
    ELSE IF pathptr = <<>>
    THEN IF ~want THEN Return(st, OK)
         ELSE IF st.curpath = <<>> THEN Return(st, "INTERNAL")
         ELSE select_again(st, stale, want)
    ELSE IF pathptr[1] = MFID THEN select_mf(st, MFID, want)
    ELSE select_relative(st, pathptr, want)

(***************************************************************************)
(* mcrd_select_file: the driver's select handler.  A DF name is sent as    *)
(* it is (NO_FID in the log); a path is packed into identifiers first.     *)
(***************************************************************************)
PathFids(value) ==
    [n \in 1..(Len(value) \div 2) |-> value[2 * n - 1] * 256 + value[2 * n]]

select_by_name(st, value, want) ==
    IF Len(value) > 16 THEN Return(st, "INVALID_ARGUMENTS")
    \* priv->curpathlen = 0, whatever do_select returned.
    ELSE LET s == do_select(st, MCRD_SEL_AID, NO_FID, want)
         IN  IF s.aborted THEN s ELSE ResetPath(s)

mcrd_select_file(st, type, value, want, stale) ==
    IF type = "DF_NAME" THEN select_by_name(st, value, want)
    ELSE IF Len(value) % 2 = 1 \/ Len(value) > (SC_MAX_PATH_SIZE \div 2) * 2
    THEN Return(st, "INVALID_ARGUMENTS")
    ELSE IF type = "PATH" THEN select_file_by_path(st, PathFids(value), want)
    ELSE select_file_by_fid(st, PathFids(value), want, stale)

(***************************************************************************)
(* mcrd_init: the path is the root, the root's special files are loaded    *)
(* and the result of the load is dropped.                                  *)
(***************************************************************************)
mcrd_init(st) ==
    IgnoreResult(load_special_files([st EXCEPT !.curpath = <<MFID>>]))

(***************************************************************************)
(* sc_asn1_find_tag: the value of the first data object with the tag, in   *)
(* a buffer of one-byte tags and one-byte lengths.                         *)
(***************************************************************************)
NoTag == [found |-> FALSE, val |-> <<>>]

RECURSIVE sc_asn1_find_tag(_, _)
sc_asn1_find_tag(buf, tag) ==
    IF Len(buf) < 2 \/ Len(buf) < 2 + buf[2] THEN NoTag
    ELSE IF buf[1] = tag THEN [found |-> TRUE, val |-> SubSeq(buf, 3, 2 + buf[2])]
    ELSE sc_asn1_find_tag(SubSeq(buf, 3 + buf[2], Len(buf)), tag)

(***************************************************************************)
(* get_se_num_from_keyd: num is the SE number or -1; ref is ref_data,      *)
(* which a record matching the identifier writes even when the scan then   *)
(* goes on to the next record.                                             *)
(***************************************************************************)
KeydTag(data) == sc_asn1_find_tag(data, 131)

KeydMatches(data, fid) ==
    /\ KeydTag(data).found /\ Len(KeydTag(data).val) = 4
    /\ KeydTag(data).val[3] = fid \div 256 /\ KeydTag(data).val[4] = fid % 256

\* The byte of the 0x80 object, with the value of the SE-DO 0x7B as se.
SeByte(se) ==
    IF ~se.found \/ se.val = <<>> THEN 0 - 1
    ELSE IF ~sc_asn1_find_tag(se.val, 128).found
            \/ Len(sc_asn1_find_tag(se.val, 128).val) # 1 THEN 0 - 1
    ELSE sc_asn1_find_tag(se.val, 128).val[1]

\* The SE number the record names, or -1 when the scan has to go on.
KeydSeNum(data) == SeByte(sc_asn1_find_tag(data, 123))

RefData(data) == <<KeydTag(data).val[1], KeydTag(data).val[2]>>

RECURSIVE keyd_scan(_, _, _)
keyd_scan(keyd, fid, ref) ==
    IF keyd = <<>> THEN [num |-> 0 - 1, ref |-> ref]
    ELSE IF ~KeydMatches(Head(keyd).data, fid) THEN keyd_scan(Tail(keyd), fid, ref)
    ELSE IF KeydSeNum(Head(keyd).data) = 0 - 1
    THEN keyd_scan(Tail(keyd), fid, RefData(Head(keyd).data))
    ELSE [num |-> KeydSeNum(Head(keyd).data), ref |-> RefData(Head(keyd).data)]

\* s is the state get_df_info left.
keyd_lookup(s, fid) ==
    IF s.aborted \/ DfiIndex(s) = 0 \/ s.df_infos[DfiIndex(s)].keyd_file = <<>>
    THEN [st |-> s, num |-> 0 - 1, ref |-> <<>>]
    ELSE [st |-> s] @@ keyd_scan(s.df_infos[DfiIndex(s)].keyd_file, fid, <<>>)

get_se_num_from_keyd(st, fid) == keyd_lookup(get_df_info(st), fid)

(***************************************************************************)
(* restore_se, mcrd_set_security_env, mcrd_compute_signature.              *)
(***************************************************************************)
\* A command without card state in this model: answered OK unless failed.
Transmit(st, apdu) ==
    [st EXCEPT !.apdus = Append(@, [apdu EXCEPT
                                       !.sw = IF Injected(st) THEN st.err ELSE OK]),
               !.r = IF Injected(st) THEN st.err ELSE OK]

restore_se(st, se_num) == Transmit(st, Apdu("MSE_RESTORE", se_num, NO_FID, OK))

EnvOperations == {"SIGN", "DECIPHER"}

\* The MANAGE SECURITY ENVIRONMENT command with the template and ref.
\* "if (se_num > 0) sc_lock": never taken, se_num being 0 from here on.
mse_set(st, op, ref, se_num) ==
    Transmit(st, ApduData("MSE_SET", IF op = "DECIPHER" THEN 184 ELSE 182,
                          <<131, 3, 128>> \o ref, OK))

\* A variant that sends the set command whatever the restore answered.
env_with_key_anyway(g, op, se_num) ==
    IF g.st.aborted THEN g.st
    ELSE IF g.num = 0 - 1 THEN mse_set(g.st, op, <<>>, se_num)
    ELSE IF g.num = 0 THEN mse_set(g.st, op, g.ref, se_num)
    ELSE mse_set(restore_se(g.st, g.num), op, g.ref, se_num)

\* g is what get_se_num_from_keyd returned.
env_with_key(g, op, se_num) ==
    IF g.st.aborted THEN g.st
    ELSE IF g.num = 0 - 1 THEN mse_set(g.st, op, <<>>, se_num)
    ELSE IF g.num = 0 THEN mse_set(g.st, op, g.ref, se_num)
    ELSE Then(restore_se(g.st, g.num), LAMBDA s : mse_set(s, op, g.ref, se_num))

FileRefFid(ref) == ref[Len(ref) - 1] * 256 + ref[Len(ref)]

mcrd_set_security_env(st, env, se_num) ==
    IF se_num # 0 THEN Return(st, "INVALID_ARGUMENTS")
    ELSE IF env.operation \notin EnvOperations THEN Return(st, "INVALID_ARGUMENTS")
    ELSE IF ~(env.file_ref_present /\ Len(env.file_ref) > 1)
    THEN Return(st, "INVALID_ARGUMENTS")
    ELSE env_with_key(get_se_num_from_keyd(st, FileRefFid(env.file_ref)),
                      env.operation, se_num)

Min(a, b) == IF a > b THEN b ELSE a

\* A variant that copies the whole answer.
CopiedAll(s, len, outlen) == [s EXCEPT !.out_len = len, !.r = "COUNT"]

Copied(s, len, outlen) == [s EXCEPT !.out_len = Min(len, outlen), !.r = "COUNT"]

\* s is the state after the signature command; resp is the card's answer:
\* its status and the lengths of its answers to the command and to GET RESPONSE.
signature_answer(s, outlen, resp) ==
    IF s.r # OK THEN s
    ELSE IF resp.sw = "9000" THEN Copied(s, resp.len, outlen)
    ELSE IF resp.sw = "6061"
    THEN Then(Transmit(s, Apdu("GET_RESPONSE", 0, NO_FID, OK)),
              LAMBDA t : Copied(t, resp.len2, outlen))
    ELSE Return(s, "CARD_CMD_FAILED")

mcrd_compute_signature(st, datalen, outlen, resp) ==
    IF datalen > 255 THEN Return(st, "INVALID_ARGUMENTS")
    ELSE signature_answer(Transmit(st, Apdu("PSO_SIGN", datalen, NO_FID, OK)),
                          outlen, resp)

(***************************************************************************)
(* The state machine.                                                      *)
(***************************************************************************)
Leave(st, c) ==
    /\ Len(st.df_infos) <= MaxDfInfos
    /\ curpath' = st.curpath
    /\ is_ef' = st.is_ef
    /\ df_infos' = st.df_infos
    /\ cardDF' = st.cardDF
    /\ cardEF' = st.cardEF
    /\ aborted' = st.aborted
    /\ ret' = st.r
    /\ apdus' = st.apdus
    /\ file_id' = st.file
    /\ out_len' = st.out_len
    /\ load_ret' = st.load
    /\ done' = st.done
    /\ call' = c
    /\ inited' = TRUE
    /\ UNCHANGED <<prof, fcp, pc, lock, wire>>

\* The record of a call: the handler, its arguments, and the path and the
\* flag it found.
Call(op, type, value, want) ==
    [op |-> op, type |-> type, value |-> value, want |-> want,
     path |-> curpath, ef |-> is_ef]

NoCall == [op |-> "none", type |-> "", value |-> <<>>, want |-> FALSE,
           path |-> <<>>, ef |-> FALSE]

\* Bytes of a request for the identifiers of path.
RECURSIVE PathBytes(_)
PathBytes(path) ==
    IF path = <<>> THEN <<>>
    ELSE <<path[1] \div 256, path[1] % 256>> \o PathBytes(Tail(path))

RECURSIVE Repeat(_, _)
Repeat(x, n) == IF n = 0 THEN <<>> ELSE <<x>> \o Repeat(x, n - 1)

InjErrs == {"CARD_CMD_FAILED", "UNKNOWN_DATA_RECEIVED"}
StaleFids == {FidDir, FidFile}

\* Requests of the shallow model, by addressing mode.
PathReqs ==
    { <<>>, <<SELF_FID>>, <<MFID>>, <<FidDir>>, <<MFID, FidDir>>,
      <<MFID, FidDir, FidFile>>, <<MFID>> \o Repeat(FidDir, 8),
      <<MFID>> \o Repeat(FidDir, 9) }

FidReqs ==
    { <<>>, <<MFID>>, <<SELF_FID>>, <<FidDir>>, <<FidFile>>, <<MFID, FidDir>> }

Values(reqs) == { PathBytes(p) : p \in reqs }

RuleRecord1 == <<128, 1, 0, 144, 0>>
KeydRecord1 == <<131, 4, 1, 2, 65, 1>>

Profiles ==
    { [depth |-> ShallowDepth, has_keyd |-> TRUE, rule |-> <<RuleRecord1>>,
       keyd |-> <<KeydRecord1>>, arr_len |-> 1] }

\* sc_file_new: a descriptor with every field zero.
sc_file_new == [id |-> 0, size |-> 0, shareable |-> 0, ef_structure |-> 0,
                type |-> "NONE"]

\* Nothing decoded, nobody in mcrd_set_security_env.
NoFcp == [buf |-> <<>>, file |-> sc_file_new, decoded |-> FALSE]
Callers == {1, 2}
Idle == [at |-> "idle"]

\* The state mcrd_init finds: calloc'ed private data, the card at its root.
FreshSession(profiles) ==
    /\ curpath = <<>>
    /\ is_ef = FALSE
    /\ df_infos = <<>>
    /\ cardDF = <<MFID>>
    /\ cardEF = NO_FID
    /\ prof \in profiles
    /\ inited = FALSE
    /\ aborted = FALSE
    /\ call = NoCall
    /\ ret = OK
    /\ apdus = <<>>
    /\ file_id = NO_FID
    /\ out_len = 0
    /\ load_ret = "NONE"
    /\ done = {}
    /\ pc = [c \in Callers |-> Idle]
    /\ lock = 0
    /\ wire = <<>>

Fresh(profiles) == FreshSession(profiles) /\ fcp = NoFcp

Init == Fresh(Profiles)

\* The commands a call transmits when none fails: any one of them may fail.
Sent(st) == Len(st.apdus)

\* An answer that cannot be parsed is an outcome of a SELECT with a file only.
ErrsFor(want) == IF want THEN InjErrs ELSE {"CARD_CMD_FAILED"}

McrdInit ==
    /\ ~inited
    /\ \E failAt \in 0..Sent(mcrd_init(Enter(0, OK))) :
       \E st \in {mcrd_init(Enter(failAt, "CARD_CMD_FAILED"))} :
          Leave(st, Call("init", "", <<>>, FALSE))

\* mcrd_select_file with command failAt (if any) answered err.
SelectOutcome(type, value, want, stale, failAt, err) ==
    \E st \in {mcrd_select_file(Enter(failAt, err), type, value, want, stale)} :
        Leave(st, Call("select_file", type, value, want))

SelectCall(type, value, want, stale) ==
    \E failAt \in 0..Sent(mcrd_select_file(Enter(0, OK), type, value, want, stale)),
       err \in ErrsFor(want) :
        SelectOutcome(type, value, want, stale, failAt, err)

SelectPath ==
    /\ inited /\ ~aborted
    /\ \E value \in Values(PathReqs) \cup {<<63>>}, want \in BOOLEAN :
          SelectCall("PATH", value, want, MFID)

SelectFid ==
    /\ inited /\ ~aborted
    /\ \E value \in Values(FidReqs) \ {<<>>}, want \in BOOLEAN :
          SelectCall("FILE_ID", value, want, MFID)

\* FILE_ID with an empty path: the re-select of the current file.
SelectCurrent ==
    /\ inited /\ ~aborted
    /\ \E want \in BOOLEAN, stale \in StaleFids :
          SelectCall("FILE_ID", <<>>, want, stale)

SelectName ==
    /\ inited /\ ~aborted
    /\ \E want \in BOOLEAN : SelectCall("DF_NAME", <<160, 0>>, want, MFID)

EnvReqs ==
    { [operation |-> "SIGN", file_ref_present |-> TRUE, file_ref |-> <<65, 1>>,
       se_num |-> 0],
      [operation |-> "DECIPHER", file_ref_present |-> TRUE,
       file_ref |-> <<63, 0, 65, 0>>, se_num |-> 0],
      [operation |-> "SIGN", file_ref_present |-> TRUE, file_ref |-> <<65, 1>>,
       se_num |-> 1],
      [operation |-> "VERIFY", file_ref_present |-> TRUE, file_ref |-> <<65, 1>>,
       se_num |-> 0],
      [operation |-> "SIGN", file_ref_present |-> FALSE, file_ref |-> <<65, 1>>,
       se_num |-> 0],
      [operation |-> "SIGN", file_ref_present |-> TRUE, file_ref |-> <<65>>,
       se_num |-> 0] }

SetSecurityEnv ==
    /\ inited /\ ~aborted
    /\ \E env \in EnvReqs :
       \E failAt \in 0..Sent(mcrd_set_security_env(Enter(0, OK), env, env.se_num)) :
       \E st \in {mcrd_set_security_env(Enter(failAt, "CARD_CMD_FAILED"), env,
                                        env.se_num)} :
          Leave(st, Call("set_security_env", env.operation, env.file_ref,
                         env.file_ref_present) @@ [se_num |-> env.se_num])

SignResps ==
    { [sw |-> "9000", len |-> 128, len2 |-> 0],
      [sw |-> "6061", len |-> 0, len2 |-> 128],
      [sw |-> "6982", len |-> 0, len2 |-> 0] }

ComputeSignature ==
    /\ inited /\ ~aborted
    /\ \E datalen \in {20, 256}, outlen \in {64, 256}, resp \in SignResps,
          failAt \in 0..2 :
       \E st \in {mcrd_compute_signature(Enter(failAt, "TRANSMIT_FAILED"), datalen,
                                         outlen, resp)} :
          Leave(st, Call("compute_signature", "", <<>>, FALSE)
                    @@ [datalen |-> datalen, outlen |-> outlen])

Next ==
    \/ McrdInit
    \/ SelectPath
    \/ SelectFid
    \/ SelectCurrent
    \/ SelectName

Spec == Init /\ [][Next]_vars

\* The resolver together with the security operations.
NextEnv ==
    \/ McrdInit
    \/ SelectPath
    \/ SelectFid
    \/ SelectCurrent
    \/ SelectName
    \/ SetSecurityEnv
    \/ ComputeSignature

SpecEnv == Init /\ [][NextEnv]_vars

(***************************************************************************)
(* The deep card: directories nested beyond MAX_CURPATH, reached with the  *)
(* longest absolute path a request can carry and relative paths below it.  *)
(***************************************************************************)
DeepProfiles ==
    { [depth |-> DeepDepth, has_keyd |-> FALSE, rule |-> <<RuleRecord1>>,
       keyd |-> <<>>, arr_len |-> 0] }

DeepPathReqs ==
    { <<MFID>> \o Repeat(FidDir, 7), <<MFID, FidDir>>, <<FidDir, FidFile>>,
      <<FidDir, FidDir>>, <<FidDir, FidDir, FidDir>> }

DeepInit == Fresh(DeepProfiles)

\* On the deep card only the first command of a call may fail.
DeepSelectCall(type, value) ==
    \E failAt \in {0, 1} :
        SelectOutcome(type, value, FALSE, MFID, failAt, "CARD_CMD_FAILED")

DeepSelectPath ==
    /\ inited /\ ~aborted
    /\ \E value \in Values(DeepPathReqs) : DeepSelectCall("PATH", value)

DeepSelectFid ==
    /\ inited /\ ~aborted
    /\ \E value \in Values({<<FidDir>>, <<FidFile>>}) :
          DeepSelectCall("FILE_ID", value)

DeepNext ==
    \/ McrdInit
    \/ DeepSelectPath
    \/ DeepSelectFid

SpecDeep == DeepInit /\ [][DeepNext]_vars

(***************************************************************************)
(* The deep card again, for selects that ask for the file: the directory   *)
(* 0x4100 holds a directory 0x4100 of its own.                             *)
(***************************************************************************)

NestSelectCall(type, value, want) ==
    \E failAt \in 0..Sent(mcrd_select_file(Enter(0, OK), type, value, want, MFID)) :
        SelectOutcome(type, value, want, MFID, failAt, "CARD_CMD_FAILED")

NestSelectPath ==
    /\ inited /\ ~aborted
    /\ \E value \in Values({ <<MFID, FidDir>>, <<MFID, FidDir, FidFile>> }), want \in BOOLEAN :
          NestSelectCall("PATH", value, want)

NestSelectFid ==
    /\ inited /\ ~aborted
    /\ \E want \in BOOLEAN : NestSelectCall("FILE_ID", PathBytes(<<FidFile>>), want)

NestNext ==
    \/ McrdInit
    \/ NestSelectPath
    \/ NestSelectFid

SpecNest == DeepInit /\ [][NestNext]_vars

(***************************************************************************)
(* mcrd_finish.  The handler is entered with the card, which is never      *)
(* NULL: "if (card) return 0;" leaves before anything is freed.            *)
(***************************************************************************)
mcrd_finish(st) == Return(st, OK)

(***************************************************************************)
(* The card with keys: EF_KeyD names the key 0x4101 without an SE data     *)
(* object, the key 0x4100 with SE 2 and the key 0x4102 with SE 0.  A       *)
(* second card has no EF_KeyD, a third an EF_Rule without records.  On a   *)
(* fourth, three records name the key 0x4103: with SE 1, with SE 3 and     *)
(* without an SE data object.                                              *)
(***************************************************************************)
KeydSe2 == <<131, 4, 3, 4, 65, 0, 123, 3, 128, 1, 2>>
KeydSe0 == <<131, 4, 5, 6, 65, 2, 123, 3, 128, 1, 0>>
KeydDupSe1 == <<131, 4, 7, 8, 65, 3, 123, 3, 128, 1, 1>>
KeydDupSe3 == <<131, 4, 9, 10, 65, 3, 123, 3, 128, 1, 3>>
KeydDupBare == <<131, 4, 11, 12, 65, 3>>

KeyProfiles ==
    { [depth |-> ShallowDepth, has_keyd |-> TRUE, rule |-> <<RuleRecord1>>,
       keyd |-> <<KeydRecord1, KeydSe2, KeydSe0>>, arr_len |-> 1],
      [depth |-> ShallowDepth, has_keyd |-> FALSE, rule |-> <<RuleRecord1>>,
       keyd |-> <<>>, arr_len |-> 1],
      [depth |-> ShallowDepth, has_keyd |-> TRUE, rule |-> <<>>,
       keyd |-> <<KeydSe0>>, arr_len |-> 1],
      [depth |-> ShallowDepth, has_keyd |-> TRUE, rule |-> <<RuleRecord1>>,
       keyd |-> <<KeydDupSe1, KeydDupSe3, KeydDupBare>>, arr_len |-> 1] }

KeyInit == Fresh(KeyProfiles)

\* The session is open: initialised, not aborted, not finished.
KeyLive == inited /\ ~aborted /\ call.op # "finish"

KeySelectCall(type, value) ==
    \E failAt \in 0..Sent(mcrd_select_file(Enter(0, OK), type, value, FALSE, MFID)) :
        SelectOutcome(type, value, FALSE, MFID, failAt, "CARD_CMD_FAILED")

KeySelectPath ==
    /\ KeyLive
    /\ KeySelectCall("PATH", PathBytes(<<MFID, FidDir>>))

KeySelectFid ==
    /\ KeyLive
    /\ KeySelectCall("FILE_ID", PathBytes(<<FidFile>>))

\* File references of the keys 0x4101, 0x4100, 0x4102 and 0x4103.
KeyRefs == { <<65, 1>>, <<63, 0, 65, 0>>, <<65, 2>>, <<65, 3>> }

KeySetSecurityEnv ==
    /\ KeyLive
    /\ \E ref \in KeyRefs, op \in EnvOperations :
       \E env \in {[operation |-> op, file_ref_present |-> TRUE, file_ref |-> ref,
                    se_num |-> 0]} :
       \E failAt \in 0..Sent(mcrd_set_security_env(Enter(0, OK), env, env.se_num)) :
       \E st \in {mcrd_set_security_env(Enter(failAt, "CARD_CMD_FAILED"), env,
                                        env.se_num)} :
          Leave(st, Call("set_security_env", env.operation, env.file_ref,
                         env.file_ref_present) @@ [se_num |-> env.se_num])

Finish ==
    /\ KeyLive
    /\ \E st \in {mcrd_finish(Enter(0, OK))} :
          Leave(st, Call("finish", "", <<>>, FALSE))

KeyNext ==
    \/ McrdInit
    \/ KeySelectPath
    \/ KeySelectFid
    \/ KeySetSecurityEnv
    \/ Finish

SpecKey == KeyInit /\ [][KeyNext]_vars

(***************************************************************************)
(* process_fcp on the bytes of an answer: the identifier, the size and the *)
(* file descriptor byte.  The sc_file is the one sc_file_new returned.     *)
(***************************************************************************)
BigEndian(val) == val[1] * 256 + val[2]

\* tag is what sc_asn1_find_tag found for 0x83.
fcp_identifier(file, tag) ==
    IF tag.found /\ Len(tag.val) = 2 THEN [file EXCEPT !.id = BigEndian(tag.val)]
    ELSE file

\* tag is what was found for 0x81, or 0x85, or in the end 0x80.
fcp_bytes(file, tag) ==
    IF tag.found /\ Len(tag.val) >= 2 THEN [file EXCEPT !.size = BigEndian(tag.val)]
    ELSE file

\* The size object: 0x81, and 0x85 when there is no 0x81.
SizeTag(buf) ==
    IF sc_asn1_find_tag(buf, 129).found THEN sc_asn1_find_tag(buf, 129)
    ELSE sc_asn1_find_tag(buf, 133)

fcp_size(file, buf) ==
    IF SizeTag(buf).found THEN fcp_bytes(file, SizeTag(buf))
    ELSE fcp_bytes(file, sc_asn1_find_tag(buf, 128))

\* A variant that files every other type code under working EF.
fcp_type_all(file, code) ==
    IF code = 1 THEN [file EXCEPT !.type = "INTERNAL_EF"]
    ELSE IF code = 7 THEN [file EXCEPT !.type = "DF"]
    ELSE [file EXCEPT !.type = "WORKING_EF"]

\* switch ((byte >> 3) & 7): the default case assigns nothing.
fcp_type(file, code) ==
    IF code = 0 THEN [file EXCEPT !.type = "WORKING_EF"]
    ELSE IF code = 1 THEN [file EXCEPT !.type = "INTERNAL_EF"]
    ELSE IF code = 7 THEN [file EXCEPT !.type = "DF"]
    ELSE file

fcp_byte(file, byte) ==
    fcp_type([file EXCEPT !.shareable = (byte \div 64) % 2,
                          !.ef_structure = byte % 8],
             (byte \div 8) % 8)

\* tag is what was found for 0x82.
fcp_descriptor(file, tag) ==
    IF tag.found /\ Len(tag.val) > 0 THEN fcp_byte(file, tag.val[1])
    ELSE file

process_fcp_bytes(file, buf) ==
    fcp_descriptor(fcp_size(fcp_identifier(file, sc_asn1_find_tag(buf, 131)), buf),
                   sc_asn1_find_tag(buf, 130))

\* The answers decoded: an identifier, a size at tag 0x81 and a descriptor
\* byte, in three layouts (the third with a second descriptor byte and with
\* the TCOS extension 0x85 next to 0x81).
FcpIds == {0, 16128, 16641, 65535}
FcpSizes == {0, 100, 256, 65535}
FcpLayouts == {1, 2, 3}
Bytes2(n) == <<n \div 256, n % 256>>

FcpBuf(layout, id, size, d) ==
    IF layout = 1
    THEN <<131, 2>> \o Bytes2(id) \o <<129, 2>> \o Bytes2(size) \o <<130, 1, d>>
    ELSE IF layout = 2
    THEN <<130, 1, d>> \o <<129, 2>> \o Bytes2(size) \o <<131, 2>> \o Bytes2(id)
    ELSE <<133, 2, 0, 7>> \o <<131, 2>> \o Bytes2(id) \o <<130, 2, d, 33>>
         \o <<129, 2>> \o Bytes2(size)

FcpInit ==
    /\ FreshSession(Profiles)
    /\ \E layout \in FcpLayouts, id \in FcpIds, size \in FcpSizes, d \in 0..255 :
          fcp = [buf |-> FcpBuf(layout, id, size, d), file |-> sc_file_new,
                 decoded |-> FALSE, id |-> id, size |-> size, d |-> d]

Decode ==
    /\ ~fcp.decoded
    /\ fcp' = [fcp EXCEPT !.file = process_fcp_bytes(fcp.file, fcp.buf),
                          !.decoded = TRUE]
    /\ UNCHANGED <<curpath, is_ef, df_infos, cardDF, cardEF, prof, inited,
                   aborted, call, ret, apdus, file_id, out_len, load_ret, done,
                   pc, lock, wire>>

FcpNext == Decode

SpecFcp == FcpInit /\ [][FcpNext]_vars

(***************************************************************************)
(* mcrd_compute_signature with answers of several lengths; the call record *)
(* keeps the answer the card gave.                                         *)
(***************************************************************************)
SignLens == {0, 64, 128, 256}
SignOutLens == {1, 64, 128, 256}

SignAnswers ==
    { [sw |-> "9000", len |-> n, len2 |-> 0] : n \in SignLens }
    \cup { [sw |-> "6061", len |-> 0, len2 |-> n] : n \in SignLens \ {256} }
    \cup { [sw |-> "6982", len |-> 0, len2 |-> 0] }

Sign ==
    /\ inited /\ ~aborted
    /\ \E datalen \in {20, 256}, outlen \in SignOutLens, resp \in SignAnswers,
          failAt \in 0..2 :
       \E st \in {mcrd_compute_signature(Enter(failAt, "TRANSMIT_FAILED"), datalen,
                                         outlen, resp)} :
          Leave(st, Call("compute_signature", "", <<>>, FALSE)
                    @@ [datalen |-> datalen, outlen |-> outlen, resp |-> resp])

SignNext == McrdInit \/ Sign

SpecSign == Init /\ [][SignNext]_vars

(***************************************************************************)
(* Two callers on one card.  Every command is one step on the wire (the    *)
(* transport takes the card for the length of one command only); the       *)
(* commands of one mcrd_set_security_env are separate steps, and the card  *)
(* is kept across steps only by whoever holds the lock of sc_lock.         *)
(***************************************************************************)
MaxWire == 4

\* The last command of st, as caller c sent it.
OnWire(c, st) ==
    [who |-> c, ins |-> st.apdus[Len(st.apdus)].ins, sw |-> st.apdus[Len(st.apdus)].sw]

\* "if (se_num > 0) { r = sc_lock(card); ... }"
sc_lock_if(c, se_num, held) == IF se_num > 0 THEN c ELSE held

LockErrs == {OK, "CARD_CMD_FAILED"}

\* Caller c is at the point where the key has been looked up: the restore
\* command goes out if the number is positive, and its error ends the call.
EnvRestore(c, g, op, err) ==
    IF g.num > 0
    THEN \E s \in {restore_se(Enter(IF err = OK THEN 0 ELSE 1, err), g.num)} :
            /\ wire' = Append(wire, OnWire(c, s))
            /\ pc' = [pc EXCEPT ![c] = IF s.r = OK
                                       THEN [at |-> "set", op |-> op, ref |-> g.ref,
                                             restored |-> TRUE]
                                       ELSE Idle]
    ELSE /\ err = OK
         /\ wire' = wire
         /\ pc' = [pc EXCEPT ![c] = [at |-> "set", op |-> op,
                                     ref |-> IF g.num = 0 THEN g.ref ELSE <<>>,
                                     restored |-> FALSE]]

\* mcrd_set_security_env from its entry to the restore command.
EnvBegin(c) ==
    /\ inited /\ ~aborted /\ ~is_ef
    /\ pc[c] = Idle /\ Len(wire) < MaxWire
    /\ lock \in {0, c}
    /\ \E ref \in KeyRefs, op \in EnvOperations, err \in LockErrs :
          EnvRestore(c, get_se_num_from_keyd(Enter(0, OK), FileRefFid(ref)), op, err)
    /\ UNCHANGED <<curpath, is_ef, df_infos, cardDF, cardEF, prof, inited,
                   aborted, call, ret, apdus, file_id, out_len, load_ret, done,
                   fcp, lock>>

\* The rest of mcrd_set_security_env: sc_lock if se_num > 0 (it is 0 here),
\* then the set command.
EnvSet(c) ==
    /\ pc[c].at = "set" /\ Len(wire) < MaxWire
    /\ lock \in {0, c}
    /\ \E err \in LockErrs :
       \E s \in {mse_set(Enter(IF err = OK THEN 0 ELSE 1, err), pc[c].op, pc[c].ref, 0)} :
          wire' = Append(wire, OnWire(c, s))
    /\ lock' = sc_lock_if(c, 0, lock)
    /\ pc' = [pc EXCEPT ![c] = Idle]
    /\ UNCHANGED <<curpath, is_ef, df_infos, cardDF, cardEF, prof, inited,
                   aborted, call, ret, apdus, file_id, out_len, load_ret, done,
                   fcp>>

LockNext ==
    \/ McrdInit
    \/ \E c \in Callers : EnvBegin(c)
    \/ \E c \in Callers : EnvSet(c)

SpecLock == KeyInit /\ [][LockNext]_vars

(***************************************************************************)
(* Vocabulary of the properties.  call holds the arguments of the last     *)
(* call and the path and flag it found; curpath, is_ef, ret and apdus are  *)
(* what it left.                                                           *)
(***************************************************************************)
Resolve(type) == call.op = "select_file" /\ call.type = type

\* The identifiers of the request, as mcrd_select_file unpacks them.
Request == PathFids(call.value)

Front(s) == SubSeq(s, 1, Len(s) - 1)
Last(s) == s[Len(s)]

IsSelect(a, kind, fid) == a.ins = "SELECT" /\ a.p1 = kind /\ a.id = fid

\* The errors a single-level select returns.
SelectErrors == {"CARD_CMD_FAILED", "FILE_NOT_FOUND", "UNKNOWN_DATA_RECEIVED"}

(***************************************************************************)
(* C1                                                                      *)
(***************************************************************************)
\* C1: after any sequence of operations, whenever the selection-path cache
\* is non-empty its first element is the root identifier 0x3F00.
C1_RootFirst == curpath # <<>> => curpath[1] = MFID

(***************************************************************************)
(* C2                                                                      *)
(***************************************************************************)
\* The last call was resolve(Path, p, needMetadata = false) with the cache
\* equal to p, an absolute path of lo to hi components.
C2_FullyCached(lo, hi) ==
    /\ Resolve("PATH") /\ ~call.want
    /\ Len(call.value) % 2 = 0
    /\ Len(Request) \in lo..hi
    /\ Request[1] = MFID
    /\ call.path = Request

C2_Unchanged ==
    /\ ret = OK
    /\ apdus = <<>>
    /\ curpath = call.path
    /\ is_ef = call.ef

\* C2 as stated: for every absolute path p of 1 to 9 components, with the
\* cache equal to p, resolve(Path, p, needMetadata = false) returns success,
\* transmits nothing and leaves the cache and the data-file flag unchanged.
C2_Idempotent_1to9 == C2_FullyCached(1, 9) => C2_Unchanged

\* C2, amended: the same for every absolute path p of 2 to 8 components,
\* the paths a request holds that are not the root alone.
C2_Idempotent == C2_FullyCached(2, 8) => C2_Unchanged

\* A data file three levels down was resolved again and nothing was sent.
C2_Witness == C2_FullyCached(2, 8) /\ C2_Unchanged /\ call.ef /\ Len(curpath) = 3

(***************************************************************************)
(* C3                                                                      *)
(***************************************************************************)
\* resolve(Path, [0x3F00, 0x4100, 0x4101]) was called with an empty cache.
C3_Call ==
    /\ Resolve("PATH")
    /\ call.value = PathBytes(<<MFID, FidDir, FidFile>>)
    /\ call.path = <<>>

\* The selects of the descent: kind and identifier, in order.
C3_Order ==
    << <<MCRD_SEL_MF, MFID>>, <<MCRD_SEL_DF, FidDir>>,
       <<MCRD_SEL_EF, FidFile>>, <<MCRD_SEL_DF, FidFile>> >>

C3_InOrder ==
    \A i \in 1..Min(Len(apdus), 4) :
        /\ IsSelect(apdus[i], C3_Order[i][1], C3_Order[i][2])
        /\ i < Len(apdus) => (apdus[i].sw = OK <=> i < 3)

\* C3: from an empty cache, resolve(Path, [0x3F00, 0x4100, 0x4101]) sends
\* the selects 0x3F00 as root, 0x4100 as directory, 0x4101 as data file, in
\* this order, each after the one before succeeded, and a directory select
\* of 0x4101 only after the data-file select failed; when the data-file
\* select succeeds the call returns success with the cache
\* [0x3F00, 0x4100, 0x4101], the data-file flag set and nothing sent after
\* the three selects.
C3_EndToEnd ==
    C3_Call =>
        /\ apdus # <<>>
        /\ C3_InOrder
        /\ Len(apdus) < 3 => Last(apdus).sw # OK /\ ret = Last(apdus).sw
        /\ Len(apdus) >= 3 /\ apdus[3].sw = OK =>
              /\ Len(apdus) = 3
              /\ ret = OK
              /\ curpath = <<MFID, FidDir, FidFile>>
              /\ is_ef

\* The three selects were sent and the data file is selected.
C3_Witness ==
    /\ C3_Call
    /\ Len(apdus) = 3 /\ apdus[3].sw = OK
    /\ ret = OK /\ is_ef /\ curpath = <<MFID, FidDir, FidFile>>

(***************************************************************************)
(* C4                                                                      *)
(***************************************************************************)
\* resolve(Path, [A, B]) was called from a cached position strictly below
\* [A, B], with A the root and B the directory 0x4100.
C4_Call ==
    /\ Resolve("PATH")
    /\ call.value = PathBytes(<<MFID, FidDir>>)
    /\ Len(call.path) > 2
    /\ SubSeq(call.path, 1, 2) = <<MFID, FidDir>>

\* No select of kind data file was sent for B: the components were selected
\* as root and as directory.
C4_NoFileSelect ==
    /\ \A i \in 1..Len(apdus) : ~IsSelect(apdus[i], MCRD_SEL_EF, FidDir)
    /\ Len(apdus) >= 1 => IsSelect(apdus[1], MCRD_SEL_MF, MFID)
    /\ Len(apdus) >= 2 => IsSelect(apdus[2], MCRD_SEL_DF, FidDir)

\* C4 as stated: from any cached position strictly below [A, B],
\* resolve(Path, [A, B]) always ends with the cache [A, B] and the data-file
\* flag clear, and sends no data-file select for B.
C4_AlwaysAtAncestor ==
    C4_Call => curpath = <<MFID, FidDir>> /\ ~is_ef /\ C4_NoFileSelect

\* C4, amended: from any cached position strictly below [A, B],
\* resolve(Path, [A, B]) sends no data-file select for B and leaves the
\* data-file flag clear; when it returns success the cache is [A, B]; when a
\* select fails it returns that select's error and the cache holds the
\* components selected before it (none, or A).
C4_AncestorRedescent ==
    C4_Call =>
        /\ C4_NoFileSelect
        /\ ~is_ef
        /\ ret = OK => curpath = <<MFID, FidDir>>
        /\ ret # OK =>
              /\ curpath \in {<<>>, <<MFID>>}
              /\ Len(apdus) = Len(curpath) + 1
              /\ ret = Last(apdus).sw

\* The ancestor was reached from a data file below it.
C4_Witness ==
    /\ C4_Call /\ call.ef
    /\ ret = OK /\ curpath = <<MFID, FidDir>> /\ ~is_ef

(***************************************************************************)
(* C5                                                                      *)
(***************************************************************************)
\* The request of a resolve in Path mode, without its leading 0x3FFF.
C5_Stripped == StripSelf(Request)

C5_Absolute == Len(C5_Stripped) > 1 /\ C5_Stripped[1] = MFID

\* The last call was a resolve from a cached position that led to a
\* descent: an absolute path, a relative path or a single identifier other
\* than the root and the marker.
C5_Descent ==
    /\ call.op = "select_file" /\ call.type \in {"PATH", "FILE_ID"}
    /\ call.path # <<>>
    /\ Request # <<>>
    /\ call.type = "PATH" => C5_Stripped \notin {<<>>, <<MFID>>}
    /\ call.type = "FILE_ID" => Len(Request) = 1 /\ Request[1] \notin {MFID, SELF_FID}

\* The cache at the start of the descent.
C5_Start ==
    IF call.type = "PATH" /\ C5_Absolute
    THEN IF C5_Stripped = call.path THEN Front(call.path) ELSE <<>>
    ELSE IF call.ef THEN Front(call.path) ELSE call.path

\* The components c1..cn the descent selects.
C5_Comps ==
    IF call.type = "FILE_ID" THEN Request
    ELSE IF C5_Absolute /\ C5_Stripped = call.path THEN <<Last(C5_Stripped)>>
    ELSE C5_Stripped

\* The descent stopped at component k.
C5_StoppedAt(k) ==
    /\ k \in 1..Len(C5_Comps)
    /\ curpath = C5_Start \o SubSeq(C5_Comps, 1, k - 1)
    /\ ~is_ef
    /\ Len(apdus) \in {k, k + 1}
    /\ Len(apdus) = k + 1 => k = Len(C5_Comps)
    /\ \A i \in 1..Len(apdus) :
          /\ apdus[i].ins = "SELECT"
          /\ apdus[i].id = C5_Comps[Min(i, k)]
          /\ i < k => apdus[i].sw = OK
    /\ Last(apdus).p1 # MCRD_SEL_EF
    /\ Last(apdus).sw = ret

\* C5: when a descent of components c1..cn fails at component ck, resolve
\* returns the error of ck's last select (the directory select), no select
\* was sent for c(k+1)..cn, and the cache is the cache at the start of the
\* descent followed by c1..c(k-1), with the data-file flag clear.
C5_NoRollback ==
    C5_Descent /\ ret \in SelectErrors =>
        C5_StoppedAt(Len(curpath) - Len(C5_Start) + 1)

\* A descent of three components from the root failed at the second.
C5_Witness ==
    /\ C5_Descent /\ ret = "CARD_CMD_FAILED"
    /\ Len(C5_Comps) = 3 /\ C5_Start = <<>>
    /\ call.path # <<MFID>>
    /\ curpath = <<MFID>>
    /\ C5_StoppedAt(2)

(***************************************************************************)
(* C6                                                                      *)
(***************************************************************************)
\* The directory the cache names: the path without the data file.
C6_CacheDir == IF is_ef THEN Front(curpath) ELSE curpath

\* Every answer of the card was either a refusal or an answer the driver
\* could read: what the card selected, the driver saw selected.
C6_AnswersRead == \A i \in 1..Len(apdus) : apdus[i].sw # "UNKNOWN_DATA_RECEIVED"

\* C6: after a resolve that was called from a cached position starting at
\* the root and returned an error, the cache, when non-empty, names the
\* directory the card has selected: no reset or pop made ahead of a select
\* survives the failure of that select.
C6_MirrorsCard ==
    /\ call.op = "select_file" /\ call.type \in {"PATH", "FILE_ID"}
    /\ call.path # <<>> /\ call.path[1] = MFID
    /\ ~aborted /\ ret # OK
    /\ C6_AnswersRead
    /\ curpath # <<>>
    => C6_CacheDir = cardDF

(***************************************************************************)
(* C7                                                                      *)
(***************************************************************************)
\* The last call was a resolve of a relative request from a cached position
\* starting at the root.
C7_Relative ==
    /\ call.op = "select_file" /\ call.type \in {"PATH", "FILE_ID"}
    /\ call.path # <<>> /\ call.path[1] = MFID
    /\ Request # <<>> /\ Request[1] \notin {MFID, SELF_FID}
    /\ call.type = "FILE_ID" => Len(Request) = 1

C7_Start == IF call.ef THEN Front(call.path) ELSE call.path

\* The components that still fit below the start of the descent.
C7_Room == MAX_CURPATH - Len(C7_Start)

\* C7: the cache never holds more than 10 identifiers; a descent that would
\* append an eleventh returns the internal error with the cache full, the
\* components that fitted appended in order, one successful select sent
\* for each of them and none for the component that does not fit; a descent
\* that returns success appended every component.
C7_DepthBound ==
    /\ Len(curpath) <= MAX_CURPATH
    /\ C7_Relative /\ ret = "INTERNAL" =>
          /\ C7_Room < Len(Request)
          /\ curpath = C7_Start \o SubSeq(Request, 1, C7_Room)
          /\ Len(apdus) = C7_Room
          /\ \A i \in 1..Len(apdus) :
                IsSelect(apdus[i], MCRD_SEL_DF, Request[i]) /\ apdus[i].sw = OK
    /\ C7_Relative /\ ret = OK => curpath = C7_Start \o Request

\* The tenth identifier was appended and the select of the eleventh was
\* not sent.
C7_Witness ==
    /\ C7_Relative /\ ret = "INTERNAL"
    /\ Len(call.path) < MAX_CURPATH
    /\ Len(curpath) = MAX_CURPATH
    /\ apdus # <<>>

(***************************************************************************)
(* C8                                                                      *)
(***************************************************************************)
\* The last call had arguments the handlers reject.
C8_Invalid ==
    \/ /\ Resolve("PATH")
       /\ Len(call.value) % 2 = 0
       /\ Len(StripSelf(Request)) = 0 \/ Len(StripSelf(Request)) >= MAX_CURPATH
    \/ /\ Resolve("FILE_ID")
       /\ Len(call.value) % 2 = 0
       /\ Len(Request) > 1
    \/ /\ call.op = "set_security_env"
       /\ \/ call.se_num # 0
          \/ call.type \notin EnvOperations
          \/ ~call.want
          \/ Len(call.value) < 2
    \/ /\ call.op = "compute_signature"
       /\ call.datalen > 255

\* C8: a call with invalid arguments returns the invalid-argument error,
\* transmits no command and leaves the cache and the data-file flag as they
\* were.
C8_RejectedUnchanged ==
    C8_Invalid =>
        /\ ret = "INVALID_ARGUMENTS"
        /\ apdus = <<>>
        /\ curpath = call.path
        /\ is_ef = call.ef

(***************************************************************************)
(* C9                                                                      *)
(***************************************************************************)
\* resolve(FileIdentifier, empty request, needMetadata = true) was called
\* from a cached position below the root.
C9_Call ==
    /\ Resolve("FILE_ID") /\ call.value = <<>> /\ call.want
    /\ Len(call.path) > 1 /\ call.path[1] = MFID

\* C9: the re-select of the current file selects the last element the
\* cache had before the call, and on success returns the descriptor of
\* that file with the cache as it was before the call.
C9_Reselect ==
    C9_Call =>
        /\ apdus # <<>> => apdus[1].ins = "SELECT" /\ apdus[1].id = Last(call.path)
        /\ ret = OK => file_id = Last(call.path) /\ curpath = call.path

(***************************************************************************)
(* C10                                                                     *)
(***************************************************************************)
\* resolve(FileIdentifier, f) was called with an empty cache, f neither the
\* root nor the marker.
C10_Call ==
    /\ Resolve("FILE_ID") /\ Len(call.value) = 2
    /\ Request[1] \notin {MFID, SELF_FID}
    /\ call.path = <<>>

\* C10: with an empty cache the first select of resolve(FileIdentifier, f)
\* targets the root 0x3F00, and on success the cache is [0x3F00, f].
C10_RootFirst ==
    C10_Call =>
        /\ apdus # <<>> => IsSelect(apdus[1], MCRD_SEL_MF, MFID)
        /\ ret = OK => curpath = <<MFID, Request[1]>>

(***************************************************************************)
(* C11                                                                     *)
(***************************************************************************)
\* resolve(FileIdentifier, f) was called with the cache P ++ [e] on a data
\* file, f neither the root nor the marker.
C11_Call ==
    /\ Resolve("FILE_ID") /\ Len(call.value) = 2
    /\ Request[1] \notin {MFID, SELF_FID}
    /\ call.ef
    /\ Len(call.path) > 1 /\ call.path[1] = MFID

\* C11: a sibling selection pops the cache to the directory P, selects f as
\* a data file and, when that fails, as a directory; on success the cache
\* is P ++ [f] and the flag tells whether the data-file select succeeded;
\* on failure the cache is P with the flag clear.
C11_Sibling ==
    C11_Call =>
        /\ apdus # <<>>
        /\ IsSelect(apdus[1], MCRD_SEL_EF, Request[1])
        /\ Len(apdus) >= 2 =>
              apdus[1].sw # OK /\ IsSelect(apdus[2], MCRD_SEL_DF, Request[1])
        /\ ret = OK =>
              /\ curpath = Front(call.path) \o Request
              /\ is_ef <=> apdus[1].sw = OK
        /\ ret # OK => curpath = Front(call.path) /\ ~is_ef

\* From a data file its sibling data file was selected: the cache kept its
\* length.
C11_Witness ==
    /\ C11_Call /\ ret = OK /\ is_ef
    /\ Len(curpath) = Len(call.path)
    /\ curpath = Front(call.path) \o Request

(***************************************************************************)
(* C12, C13, C14: mcrd_set_security_env and the key directory.             *)
(***************************************************************************)
\* The last call was setSecurityEnvironment with arguments it accepts, in a
\* directory, and it returned.
Key_Call ==
    /\ call.op = "set_security_env"
    /\ call.se_num = 0 /\ call.type \in EnvOperations
    /\ call.want /\ Len(call.value) > 1
    /\ ~call.ef /\ ~aborted

\* The key records stored for the current directory, head first.
Key_Records ==
    IF curpath = <<>> \/ DfiOf(df_infos, curpath) = 0 THEN <<>>
    ELSE df_infos[DfiOf(df_infos, curpath)].keyd_file

Key_Target == FileRefFid(call.value)

\* The stored records whose 4-byte value of tag 0x83 ends in the target.
Key_Matching ==
    { i \in 1..Len(Key_Records) : KeydMatches(Key_Records[i].data, Key_Target) }

\* The number the handler resolved: what get_se_num_from_keyd gives.
Key_Num == keyd_scan(Key_Records, Key_Target, <<>>).num

\* The set command the log shows at position i, with reference bytes ref.
Key_IsSet(i, ref) ==
    /\ apdus[i].ins = "MSE_SET"
    /\ apdus[i].data = <<131, 3, 128>> \o ref

\* C12: when no key-directory record of the current directory names the
\* target identifier (none being loaded included), setSecurityEnvironment
\* returns the invalid-argument error and transmits nothing.
C12_Unresolvable ==
    Key_Call /\ Key_Matching = {} =>
        ret = "INVALID_ARGUMENTS" /\ apdus = <<>>

\* C13: when the one record that names the target has the value
\* {r0, r1, hi(t), lo(t)} and no environment container, the key reference
\* resolves to [r0, r1] with environment number 0: the set command carries
\* r0 r1 and no restore command is sent.
C13_NoContainer ==
    Key_Call =>
        \A i \in Key_Matching :
            Key_Matching = {i}
            /\ ~sc_asn1_find_tag(Key_Records[i].data, 123).found
            => /\ Len(apdus) = 1
               /\ Key_IsSet(1, RefData(Key_Records[i].data))

\* C14: when setSecurityEnvironment resolves a non-zero number N, one
\* restore command for N is sent, first; accepted, it is followed by the
\* set command and nothing else, and the set command's status is returned;
\* rejected, its error is returned and no set command is sent.  With the
\* number 0, or none, no restore command is sent.
C14_RestoreThenSet ==
    Key_Call =>
        /\ \A i \in 1..Len(apdus) :
              apdus[i].ins = "MSE_RESTORE" => i = 1 /\ Key_Num > 0
        /\ Key_Num > 0 =>
              /\ apdus # <<>>
              /\ apdus[1].ins = "MSE_RESTORE" /\ apdus[1].p1 = Key_Num
              /\ apdus[1].sw # OK => Len(apdus) = 1 /\ ret = apdus[1].sw
              /\ apdus[1].sw = OK =>
                    /\ Len(apdus) = 2
                    /\ apdus[2].ins = "MSE_SET"
                    /\ ret = apdus[2].sw
        /\ Key_Num <= 0 =>
              Len(apdus) = 1 /\ apdus[1].ins = "MSE_SET" /\ ret = apdus[1].sw

\* Environment 2 was restored and the set command followed.
C14_Witness ==
    /\ Key_Call /\ Key_Num = 2
    /\ Len(apdus) = 2 /\ ret = OK
    /\ apdus[1].ins = "MSE_RESTORE" /\ apdus[2].ins = "MSE_SET"

\* The restore of environment 2 was rejected and nothing followed.
C14_WitnessRejected ==
    /\ Key_Call /\ Key_Num = 2
    /\ Len(apdus) = 1 /\ apdus[1].ins = "MSE_RESTORE" /\ ret = "CARD_CMD_FAILED"

(***************************************************************************)
(* C16: load_special_files and a directory without EF_KeyD.                *)
(***************************************************************************)
\* Command i is the key-directory selection of the call's last load: no
\* later load of the call reached a command, and the rule-file scan before
\* it ended at record-not-found.
C16_KeydSelect(i) ==
    /\ ~aborted /\ load_ret \notin {"NONE", "HIT"}
    /\ i > 1
    /\ IsSelect(apdus[i], MCRD_SEL_EF, EF_KeyD)
    /\ apdus[i - 1].ins = "READ_RECORD" /\ apdus[i - 1].sw = "RECORD_NOT_FOUND"
    /\ \A j \in (i + 1)..Len(apdus) : ~IsSelect(apdus[j], MCRD_SEL_EF, EF_Rule)

\* C16: a load whose rule-file scan completes and whose key-directory
\* selection fails with file-not-found returns success, and the directory
\* (the root, for the load mcrd_init runs) is left with zero key records; a
\* key-directory selection failing with any other error makes the load
\* return that error.
C16_AbsentKeyd ==
    \A i \in 1..Len(apdus) :
        C16_KeydSelect(i) =>
            /\ apdus[i].sw = "FILE_NOT_FOUND" =>
                  /\ load_ret = OK
                  /\ i = Len(apdus)
                  /\ call.op = "init" =>
                        /\ DfiOf(df_infos, <<MFID>>) # 0
                        /\ df_infos[DfiOf(df_infos, <<MFID>>)].keyd_file = <<>>
            /\ apdus[i].sw \notin {OK, "FILE_NOT_FOUND"} =>
                  load_ret = apdus[i].sw /\ i = Len(apdus)

\* mcrd_init loaded the root of a card without EF_KeyD.
C16_Witness ==
    /\ call.op = "init" /\ C16_KeydSelect(Len(apdus))
    /\ apdus[Len(apdus)].sw = "FILE_NOT_FOUND"
    /\ load_ret = OK
    /\ df_infos[DfiOf(df_infos, <<MFID>>)].keyd_file = <<>>
    /\ df_infos[DfiOf(df_infos, <<MFID>>)].rule_file # <<>>

\* The key-directory selection of a load was refused by the card.
C16_WitnessRefused ==
    /\ C16_KeydSelect(Len(apdus))
    /\ apdus[Len(apdus)].sw = "CARD_CMD_FAILED"
    /\ load_ret = "CARD_CMD_FAILED"

(***************************************************************************)
(* C17: mcrd_finish.                                                       *)
(***************************************************************************)
\* C17: after teardown of an initialised session no DirectoryInfo entry
\* (and so no access-rule or key-directory record) remains, and the path
\* cache is discarded.
C17_TornDown ==
    call.op = "finish" => df_infos = <<>> /\ curpath = <<>>

(***************************************************************************)
(* C18: process_fcp, the identifier, the size and the descriptor byte.     *)
(***************************************************************************)
C18_TypeOf(code) ==
    IF code = 0 THEN "WORKING_EF"
    ELSE IF code = 1 THEN "INTERNAL_EF"
    ELSE IF code = 7 THEN "DF"
    ELSE sc_file_new.type

\* C18: decoding an answer that carries an identifier, a 2-byte size at
\* tag 0x81 and a descriptor byte d yields those two big-endian values,
\* shareable = bit 0x40 of d, EF structure = d mod 8, and the type named
\* by bits 3..5 of d: 0 working EF, 1 internal EF, 7 DF, and for every
\* other code none of these (the type of a new descriptor: unknown).
C18_Decoded ==
    fcp.decoded =>
        /\ fcp.file.id = fcp.id
        /\ fcp.file.size = fcp.size
        /\ fcp.file.shareable = (fcp.d \div 64) % 2
        /\ fcp.file.ef_structure = fcp.d % 8
        /\ fcp.file.type = C18_TypeOf((fcp.d \div 8) % 8)
        /\ (fcp.d \div 8) % 8 \notin {0, 1, 7}
              => fcp.file.type \notin {"WORKING_EF", "INTERNAL_EF", "DF"}

\* Identifier 0x4101, size 100, a shareable working EF.
C18_Witness ==
    /\ fcp.decoded /\ fcp.id = 16641 /\ fcp.size = 100 /\ fcp.d = 65
    /\ fcp.file = [id |-> 16641, size |-> 100, shareable |-> 1,
                   ef_structure |-> 1, type |-> "WORKING_EF"]

\* A descriptor byte whose type code is none of 0, 1 and 7.
C18_WitnessUnknown ==
    /\ fcp.decoded /\ fcp.d = 16
    /\ fcp.file.type = sc_file_new.type

(***************************************************************************)
(* C19: mcrd_compute_signature, the number of bytes returned.              *)
(***************************************************************************)
\* The last call was computeSignature and it returned a byte count.
C19_Call == call.op = "compute_signature" /\ ret = "COUNT" /\ "resp" \in DOMAIN call

\* The length of the answer the bytes came from: the answer to the command,
\* or the answer to GET RESPONSE on the continuation path.
C19_ResponseLength ==
    IF call.resp.sw = "9000" THEN call.resp.len ELSE call.resp.len2

\* C19: on the direct path and on the continuation path the number of
\* bytes written and returned is min(response length, capacity), and so
\* never more than the capacity.
C19_OutputBound ==
    C19_Call =>
        /\ C19_ResponseLength <= call.outlen => out_len = C19_ResponseLength
        /\ C19_ResponseLength > call.outlen => out_len = call.outlen
        /\ out_len <= call.outlen
        /\ call.resp.sw = "9000" <=> Len(apdus) = 1
        /\ call.resp.sw = "6061" <=> Len(apdus) = 2

\* The direct path truncated an answer of 128 bytes to a capacity of 64.
C19_Witness ==
    /\ C19_Call /\ call.resp.sw = "9000" /\ call.resp.len = 128
    /\ call.outlen = 64 /\ out_len = 64

\* The continuation path truncated, and the direct path did not have to.
C19_WitnessContinuation ==
    /\ C19_Call /\ call.resp.sw = "6061" /\ call.resp.len2 = 128
    /\ call.outlen = 64 /\ out_len = 64 /\ Len(apdus) = 2

(***************************************************************************)
(* C20: load_special_files for a directory already loaded.                 *)
(***************************************************************************)
\* The step is a select that ended, successfully, on a directory and ran
\* load_special_files for it (select_down does, last of all), and a load
\* of that directory had completed successfully before the step.
C20_LoadedAgain ==
    /\ call'.op = "select_file" /\ ret' = OK
    /\ ~aborted' /\ ~is_ef'
    /\ load_ret' # "NONE"
    /\ curpath' \in done

\* C20: once a load of a directory has completed successfully, every
\* later load of that directory is a cache hit: it returns success without
\* a command to the card and leaves the stored records as they were,
\* however many records the files held.
C20_CacheHit ==
    [][C20_LoadedAgain =>
          /\ load_ret' = "HIT"
          /\ DfiOf(df_infos, curpath') # 0
          /\ DfiOf(df_infos', curpath') # 0
          /\ df_infos'[DfiOf(df_infos', curpath')]
                = df_infos[DfiOf(df_infos, curpath')]]_vars

\* The same for the directories whose rule file held a record.
C20_CacheHitNonEmpty ==
    [][C20_LoadedAgain /\ prof.rule # <<>> =>
          /\ load_ret' = "HIT"
          /\ DfiOf(df_infos, curpath') # 0
          /\ DfiOf(df_infos', curpath') # 0
          /\ df_infos'[DfiOf(df_infos', curpath')]
                = df_infos[DfiOf(df_infos, curpath')]]_vars

(***************************************************************************)
(* C15: the card between the restore command and the set command.          *)
(***************************************************************************)
\* Command j is the set command of the call whose accepted restore command
\* is command i: the next command of the same caller.
C15_SetOf(i, j) ==
    /\ i < j
    /\ wire[i].ins = "MSE_RESTORE" /\ wire[i].sw = OK
    /\ wire[j].ins = "MSE_SET" /\ wire[j].who = wire[i].who
    /\ \A k \in (i + 1)..(j - 1) : wire[k].who # wire[i].who

\* A caller between its restore command and its set command holds the lock.
C15_LockHeld ==
    \A c \in Callers : pc[c].at = "set" /\ pc[c].restored => lock = c

\* C15: with two callers on one card, whenever a setSecurityEnvironment
\* sends a restore command and a set command, the card is held from before
\* the restore until after the set, so that no command of the other
\* caller lies between the two.
C15_Exclusive ==
    \A i, j \in 1..Len(wire) : C15_SetOf(i, j) => j = i + 1

(***************************************************************************)
(* C21: select_file_by_path, the path already selected, with a file.       *)
(***************************************************************************)
\* resolve(Path, p, needMetadata = true) was called with the cache equal to
\* the absolute path p of two or more identifiers.
C21_Call ==
    /\ Resolve("PATH") /\ call.want /\ ~aborted
    /\ Len(Request) >= 2 /\ Request[1] = MFID
    /\ call.path = Request

\* The commands of a metadata load.
C21_OfLoad(a) ==
    \/ a.ins = "READ_RECORD"
    \/ IsSelect(a, MCRD_SEL_EF, EF_Rule)
    \/ IsSelect(a, MCRD_SEL_EF, EF_KeyD)

\* C21: the already-positioned resolve with metadata pops one level and
\* selects only the final component of p, as a data file first and as a
\* directory when that fails; no root select and no select of an
\* intermediate component is sent (what follows the directory select is
\* the directory's metadata load).  On success the cache is p again and
\* the descriptor of the final component is returned.
C21_Reselect ==
    C21_Call =>
        /\ apdus # <<>>
        /\ IsSelect(apdus[1], MCRD_SEL_EF, Last(Request))
        /\ apdus[1].sw = OK => Len(apdus) = 1
        /\ Len(apdus) >= 2 => IsSelect(apdus[2], MCRD_SEL_DF, Last(Request))
        /\ \A i \in 3..Len(apdus) : C21_OfLoad(apdus[i])
        /\ ret = OK =>
              /\ curpath = Request
              /\ file_id = Last(Request)
              /\ is_ef <=> apdus[1].sw = OK
        /\ ret # OK => curpath = Front(Request) /\ ~is_ef

\* The data file 3F00/4100/4101 was selected again, with one command.
C21_Witness ==
    /\ C21_Call /\ ret = OK /\ Len(Request) = 3
    /\ call.ef /\ is_ef /\ Len(apdus) = 1 /\ curpath = call.path

\* The directory 3F00/4100 was tried as a data file and then as a directory.
C21_WitnessDir ==
    /\ C21_Call /\ Len(Request) = 2 /\ ~call.ef
    /\ Len(apdus) = 2 /\ apdus[1].sw = "FILE_NOT_FOUND"

(***************************************************************************)
(* C22, C23: the record scans of load_special_files.                       *)
(***************************************************************************)
\* Command i reads a record.
Scan_IsRead(i) == apdus[i].ins = "READ_RECORD"

\* Command i selects one of the two special files.
Scan_IsSpecial(i) ==
    IsSelect(apdus[i], MCRD_SEL_EF, EF_Rule) \/ IsSelect(apdus[i], MCRD_SEL_EF, EF_KeyD)

\* The records a scan of file stores: the last one read first.
Scan_Stored(file) ==
    [i \in 1..Len(file) |->
        [recno |-> Len(file) + 1 - i, data |-> file[Len(file) + 1 - i]]]

\* The commands of a scan of a file of n records that nothing disturbs.
Scan_Reads(n) ==
    [i \in 1..(n + 1) |->
        [ins |-> "READ_RECORD", p1 |-> i,
         sw |-> IF i <= n THEN OK ELSE "RECORD_NOT_FOUND"]]

\* The commands of a whole load on the card of the model.
Scan_Load ==
    <<[ins |-> "SELECT", p1 |-> EF_Rule, sw |-> OK]>> \o Scan_Reads(Len(prof.rule))
    \o (IF prof.has_keyd
        THEN <<[ins |-> "SELECT", p1 |-> EF_KeyD, sw |-> OK]>>
             \o Scan_Reads(Len(prof.keyd))
        ELSE <<[ins |-> "SELECT", p1 |-> EF_KeyD, sw |-> "FILE_NOT_FOUND"]>>)

\* Command i of the log, as Scan_Load writes commands.
Scan_Sent(i) ==
    [ins |-> apdus[i].ins,
     p1 |-> IF apdus[i].ins = "SELECT" THEN apdus[i].id ELSE apdus[i].p1,
     sw |-> apdus[i].sw]

\* The last call ended with a load that ran to its end.
Scan_Completed ==
    /\ call.op \in {"init", "select_file"} /\ ~aborted
    /\ load_ret = OK /\ curpath # <<>>

\* C22: a scan reads the records 1, 2, ... in that order, one command per
\* number, and stops at the first record-not-found answer, which is no
\* error; for files of n records a completed load has sent the numbers
\* 1..n+1 and stored exactly n records, numbered 1..n.
C22_ScanOrder ==
    /\ \A i \in 1..Len(apdus) :
          Scan_IsRead(i) =>
              /\ i > 1
              /\ \/ Scan_IsSpecial(i - 1) /\ apdus[i - 1].sw = OK /\ apdus[i].p1 = 1
                 \/ /\ Scan_IsRead(i - 1) /\ apdus[i - 1].sw = OK
                    /\ apdus[i].p1 = apdus[i - 1].p1 + 1
              /\ apdus[i].sw = "RECORD_NOT_FOUND" /\ i < Len(apdus)
                    => ~Scan_IsRead(i + 1)
    /\ Scan_Completed =>
          /\ Len(apdus) >= Len(Scan_Load)
          /\ \A k \in 1..Len(Scan_Load) :
                Scan_Sent(Len(apdus) - Len(Scan_Load) + k) = Scan_Load[k]
          /\ DfiOf(df_infos, curpath) # 0
          /\ df_infos[DfiOf(df_infos, curpath)].rule_file = Scan_Stored(prof.rule)
          /\ df_infos[DfiOf(df_infos, curpath)].keyd_file = Scan_Stored(prof.keyd)

\* A key-directory file of three records was read with four commands.
C22_Witness ==
    /\ Scan_Completed /\ Len(prof.keyd) = 3
    /\ apdus[Len(apdus)].p1 = 4 /\ apdus[Len(apdus)].sw = "RECORD_NOT_FOUND"
    /\ Len(df_infos[DfiOf(df_infos, curpath)].keyd_file) = 3
    /\ df_infos[DfiOf(df_infos, curpath)].keyd_file[1].recno = 3

\* Command i is a READ RECORD the card refused with something else than
\* record-not-found.
C23_Refused(i) ==
    /\ call.op \in {"init", "select_file"} /\ ~aborted
    /\ Scan_IsRead(i) /\ apdus[i].sw \notin {OK, "RECORD_NOT_FOUND"}

\* The select that opened the scan command i belongs to.
C23_ScanOf(i) == apdus[i - apdus[i].p1].id

\* The records the directory of the load holds for file.
C23_Holds(file) ==
    IF file = EF_Rule THEN df_infos[DfiOf(df_infos, curpath)].rule_file
    ELSE df_infos[DfiOf(df_infos, curpath)].keyd_file

C23_WitnessKeyd ==
    /\ C23_Refused(Len(apdus)) /\ C23_ScanOf(Len(apdus)) = EF_KeyD
    /\ apdus[Len(apdus)].p1 = 2 /\ Len(C23_Holds(EF_KeyD)) = 1

(***************************************************************************)
(* C24: get_se_num_from_keyd and several records for one key.              *)
(***************************************************************************)
\* The first record, in scan order, that names the target.
C24_First == CHOOSE i \in Key_Matching : \A j \in Key_Matching : i <= j

\* C24: when several key records of the directory name the target, the
\* reference bytes and the environment number are those of the first such
\* record in scan order (the last loaded first): the set command carries
\* its reference bytes and a restore command, if any, its number.
C24_FirstMatch ==
    Key_Call /\ Cardinality(Key_Matching) >= 2 =>
        \A i \in 1..Len(apdus) :
            /\ apdus[i].ins = "MSE_SET"
                  => Key_IsSet(i, RefData(Key_Records[C24_First].data))
            /\ apdus[i].ins = "MSE_RESTORE"
                  => apdus[i].p1 = KeydSeNum(Key_Records[C24_First].data)

\* The same, when the first record that names the target has the SE data
\* object.
C24_FirstComplete ==
    /\ Key_Call /\ Cardinality(Key_Matching) >= 2
    /\ KeydSeNum(Key_Records[C24_First].data) # 0 - 1
    => \A i \in 1..Len(apdus) :
            /\ apdus[i].ins = "MSE_SET"
                  => Key_IsSet(i, RefData(Key_Records[C24_First].data))
            /\ apdus[i].ins = "MSE_RESTORE"
                  => apdus[i].p1 = KeydSeNum(Key_Records[C24_First].data)

(***************************************************************************)
(* C25: is_ef and the length of curpath.                                   *)
(***************************************************************************)
\* C25: in every reachable state, if the data-file flag is set the cache
\* has at least two elements; the flag is never set with an empty cache.
C25_FlagImpliesDepth == ~aborted /\ is_ef => Len(curpath) >= 2

(***************************************************************************)
(* C26: assert (!priv->is_ef) in get_df_info and load_special_files.       *)
(***************************************************************************)
\* The root was requested, with a file, while the cache was on a data file.
C26_RootFromFile ==
    /\ Resolve("PATH") /\ Request = <<MFID>> /\ call.want
    /\ call.ef /\ call.path # <<>> /\ call.path[1] = MFID

\* setSecurityEnvironment was called, with arguments it accepts, while the
\* cache was on a data file.
C26_EnvFromFile ==
    /\ call.op = "set_security_env"
    /\ call.se_num = 0 /\ call.type \in EnvOperations
    /\ call.want /\ Len(call.value) > 1
    /\ call.ef

\* C26: whenever get_df_info or the metadata load runs the data-file flag
\* is clear, so that their assertion never fails: not in the parse of the
\* answer to a root select sent while the cache is on a data file, and not
\* in setSecurityEnvironment, whatever the cached position.
C26_LookupSafe == C26_RootFromFile \/ C26_EnvFromFile => ~aborted

\* The part of it for the root select.
C26_RootSafe == C26_RootFromFile => ~aborted

\* The part of it for setSecurityEnvironment.
C26_EnvSafe == C26_EnvFromFile => ~aborted

(***************************************************************************)
(* C27: assert (priv->curpathlen > 1) before a pop.                        *)
(***************************************************************************)
\* The request after a leading 0x3FFF went.
C27_Stripped == StripSelf(Request)

\* The already-positioned re-select of Path mode.
C27_PopsPath ==
    /\ Resolve("PATH") /\ call.want
    /\ Len(C27_Stripped) >= 2 /\ C27_Stripped = call.path

\* The empty-request re-select of FileIdentifier mode.
C27_PopsFid ==
    /\ Resolve("FILE_ID") /\ call.value = <<>> /\ call.want
    /\ call.path # <<>>

\* Relative addressing from a data file.
C27_PopsLeave ==
    /\ call.ef /\ call.path # <<>>
    /\ \/ /\ Resolve("PATH")
          /\ C27_Stripped # <<>> /\ ~BadPathLen(Len(C27_Stripped))
          /\ C27_Stripped[1] # MFID
       \/ /\ Resolve("FILE_ID") /\ Len(Request) = 1
          /\ Request[1] \notin {MFID, SELF_FID}

\* C27: wherever the resolver pops one level off the cache (the
\* already-positioned re-select in Path mode, the empty-request re-select
\* in FileIdentifier mode, leaving a data file before relative
\* addressing) the cache is longer than 1, so that the assertion before
\* the pop never fails; the empty-request re-select at the root included.
C27_PopSafe ==
    /\ C27_PopsPath \/ C27_PopsFid \/ C27_PopsLeave
    /\ call.path[1] = MFID
    => ~aborted

\* The same without the empty-request re-select.
C27_PopSafeElsewhere ==
    /\ C27_PopsPath \/ C27_PopsLeave
    /\ call.path[1] = MFID
    => ~aborted

(***************************************************************************)
(* C28: the directory the card has selected and the directory curpath      *)
(* names.                                                                  *)
(***************************************************************************)
\* A resolve by path or identifier, called from a cache that is empty or
\* starts at the root, returned success with a non-empty cache.
C28_Success ==
    /\ call.op = "select_file" /\ call.type \in {"PATH", "FILE_ID"}
    /\ call.path = <<>> \/ call.path[1] = MFID
    /\ ~aborted /\ ret = OK
    /\ curpath # <<>> /\ curpath[1] = MFID

\* C28: after every resolve that returns success with a non-empty cache
\* the card's current directory is the directory the cache names (the
\* cache without the data file when the flag is set), the metadata load
\* having selected EF_Rule and EF_KeyD in between or not.
C28_CardAgrees == C28_Success => C6_CacheDir = cardDF

\* A step from a state in which card and cache agree.
C28_FromAgreement == curpath # <<>> /\ C6_CacheDir = cardDF

\* C28, for the calls that find card and cache in agreement: after a
\* resolve that returns success the card's current directory is still the
\* directory the cache names.
C28_KeepsAgreement ==
    [][C28_FromAgreement /\ C28_Success' => C6_CacheDir' = cardDF']_vars

(***************************************************************************)
(* C29: the cache test of load_special_files.                              *)
(***************************************************************************)
\* The last call ended with a load that returned at the cache test.
C29_Hit ==
    /\ call.op = "select_file" /\ ~aborted
    /\ load_ret = "HIT"

\* C29: a load returns success without a command only for a directory of
\* which an earlier load ran to completion; a load that was aborted
\* part-way never makes later loads answer from the partial records.
C29_HitAfterComplete == C29_Hit => curpath \in done

(***************************************************************************)
(* C30: a failed load after a descent.                                     *)
(***************************************************************************)
\* The last call ran a metadata load, and the load failed.
C30_LoadFailed ==
    /\ call.op \in {"init", "select_file"} /\ ~aborted
    /\ load_ret \notin {"NONE", "HIT", OK}

\* The request is an absolute path.
C30_Absolute ==
    /\ Resolve("PATH") /\ Len(C27_Stripped) > 1 /\ C27_Stripped[1] = MFID

\* C30: when every single-level select of a descent succeeded and the
\* final node is a directory, the call returns success with the cache
\* ending at that directory and the data-file flag clear even if the
\* metadata load of that directory fails: the load's error, the status of
\* the last command, is not returned.
C30_LoadFailureIgnored ==
    C30_LoadFailed =>
        /\ ret = OK /\ ~is_ef
        /\ curpath # <<>>
        /\ apdus # <<>> /\ C21_OfLoad(Last(apdus)) /\ Last(apdus).sw = load_ret
        /\ \A i \in 1..Len(apdus) : ~C21_OfLoad(apdus[i]) /\ i < Len(apdus)
              => apdus[i].sw = OK \/ apdus[i].p1 = MCRD_SEL_EF
        /\ call.op = "init" => curpath = <<MFID>>
        /\ C30_Absolute => curpath = C27_Stripped
        /\ Resolve("PATH") /\ C27_Stripped = <<MFID>> => curpath = <<MFID>>

\* The descent 3F00, 4100 succeeded and the rule file of 3F00/4100 could
\* not be selected.
C30_Witness ==
    /\ C30_LoadFailed /\ C30_Absolute /\ Len(curpath) = 2
    /\ IsSelect(Last(apdus), MCRD_SEL_EF, EF_Rule)
    /\ load_ret = "CARD_CMD_FAILED" /\ ret = OK

\* A record read of the load was refused.
C30_WitnessRead ==
    /\ C30_LoadFailed /\ call.op = "select_file"
    /\ Last(apdus).ins = "READ_RECORD" /\ ret = OK

====
